---- MODULE Spec2Model ----
(***************************************************************************)
(* Model of order_manager.py: a single-threaded console program that keeps *)
(* a list of pending orders (orders.json), lets the user add an order,     *)
(* print a report, or fulfil an order (moved to output_orders.json).       *)
(*                                                                         *)
(* Text is a sequence of characters, each character a one-element atom     *)
(* ("sup2" stands for U+00B2, SUPERSCRIPT TWO).  A file is a record        *)
(* [kind, data]: kind says what reading it does ("missing": open raises    *)
(* FileNotFoundError; "malformed": json.load raises JSONDecodeError;       *)
(* "undecodable": the bytes are not UTF-8, the read raises                 *)
(* UnicodeDecodeError; "object": the JSON text {} ; "list": a JSON array   *)
(* of orders, held in data).  Every step of the program that waits for a   *)
(* line of input is one action; pc is the prompt the program is at.        *)
(***************************************************************************)
EXTENDS Integers, Sequences, FiniteSets, TLC

VARIABLES
    files,          \* file name -> content of the store on disk
    pc,             \* position of the program
    orders,         \* main: the in-memory pending list
    order_id,       \* add_order locals
    customer,
    order_items,
    item_name,
    price,
    choice,         \* process_order locals
    idx,
    order,
    result,         \* message returned by add_order / process_order
    retOrder,       \* second component returned by process_order: <<>> is None
    stdout,         \* what the last step printed
    error,          \* the exception that ended the program, "" if none
    history         \* not program state: what the session has done so far

vars == <<files, pc, orders, order_id, customer, order_items, item_name,
          price, choice, idx, order, result, retOrder, stdout, error,
          history>>

--------------------------------------------------------------------------
(* Bounds of the model *)

MaxOrders == 3
MaxItems == 2
MaxFulfilled == 2

--------------------------------------------------------------------------
(* Program constants *)

INPUT_FILE == "orders.json"
OUTPUT_FILE == "output_orders.json"

--------------------------------------------------------------------------
(* Text: str.strip, str.upper, str.isdigit, int *)

Whitespace == {" "}
AsciiDigits == {"0", "1", "2", "3", "4", "5", "6", "7", "8", "9"}
\* characters c with c.isdigit(): the decimal digits and digit-like
\* characters such as SUPERSCRIPT TWO, which int() does not accept
IsDigitChars == AsciiDigits \cup {"sup2"}

LowerToUpper == [a |-> "A", b |-> "B", x |-> "X", e |-> "E", l |-> "L"]

UpperChar(c) == IF c \in DOMAIN LowerToUpper THEN LowerToUpper[c] ELSE c

upper(s) == [i \in 1..Len(s) |-> UpperChar(s[i])]

RECURSIVE LStrip(_)
LStrip(s) ==
    IF s = <<>> THEN s
    ELSE IF Head(s) \in Whitespace THEN LStrip(Tail(s)) ELSE s

RECURSIVE RStrip(_)
RStrip(s) ==
    IF s = <<>> THEN s
    ELSE IF s[Len(s)] \in Whitespace THEN RStrip(SubSeq(s, 1, Len(s) - 1)) ELSE s

strip(s) == RStrip(LStrip(s))

isdigit(s) == s # <<>> /\ \A i \in 1..Len(s) : s[i] \in IsDigitChars

DigitVal(c) ==
    CASE c = "0" -> 0 [] c = "1" -> 1 [] c = "2" -> 2 [] c = "3" -> 3
      [] c = "4" -> 4 [] c = "5" -> 5 [] c = "6" -> 6 [] c = "7" -> 7
      [] c = "8" -> 8 [] c = "9" -> 9

RECURSIVE DigitsVal(_)
DigitsVal(s) ==
    IF s = <<>> THEN 0
    ELSE 10 * DigitsVal(SubSeq(s, 1, Len(s) - 1)) + DigitVal(s[Len(s)])

\* int(s): surrounding whitespace is ignored, one optional sign, then at least
\* one decimal digit; anything else raises ValueError
int(s) ==
    LET t == strip(s)
        signed == t # <<>> /\ Head(t) \in {"+", "-"}
        body == IF signed THEN Tail(t) ELSE t
        valid == body # <<>> /\ \A i \in 1..Len(body) : body[i] \in AsciiDigits
    IN  IF valid
        THEN [raised |-> FALSE,
              value |-> IF signed /\ Head(t) = "-" THEN 0 - DigitsVal(body)
                        ELSE DigitsVal(body)]
        ELSE [raised |-> TRUE, value |-> 0]

--------------------------------------------------------------------------
(* Orders and what the stores can hold *)

Item(n, p, q) == [name |-> n, price |-> p, quantity |-> q]
Order(id, c, its) == [order_id |-> id, customer |-> c, items |-> its]

Tea == <<"T", "e", "a">>

\* orders found in the stores when the program starts: ids written by this
\* program are upper case, ids written by hand need not be
HandWritten == Order(<<"a", "1">>, <<"A", "l">>, <<Item(Tea, 30, 2)>>)
Stored == Order(<<"B", "2">>, <<"B">>, <<Item(Tea, 5, 1)>>)
Served == Order(<<"C", "3">>, <<"C">>, <<Item(Tea, 5, 1), Item(Tea, 30, 2)>>)

PendingLists == {<<>>, <<HandWritten>>, <<Stored>>, <<Stored, HandWritten>>}
FulfilledLists == {<<>>, <<Served>>}

\* a Python value main can hold in orders: a list of orders, or the dict {}
ListValue(s) == [kind |-> "list", data |-> s]
ObjectValue == [kind |-> "object", data |-> <<>>]

--------------------------------------------------------------------------
(* Storage adapter *)

\* The text of a JSON object: its member names and values in the order they
\* are written.  json.dump writes a dict's members in insertion order.
JsonObject(keys, vals) == [keys |-> keys, vals |-> vals]

Member(obj, k) == obj.vals[CHOOSE i \in 1..Len(obj.keys) : obj.keys[i] = k]

dump_item(it) ==
    JsonObject(<<"name", "price", "quantity">>, <<it.name, it.price, it.quantity>>)

\* an order written with its items last to first
dump_order_reversed(o) ==
    JsonObject(<<"order_id", "customer", "items">>,
               <<o.order_id, o.customer,
                 [i \in 1..Len(o.items) |->
                     dump_item(o.items[Len(o.items) + 1 - i])]>>)

dump_order(o) ==
    JsonObject(<<"order_id", "customer", "items">>,
               <<o.order_id, o.customer,
                 [i \in 1..Len(o.items) |-> dump_item(o.items[i])]>>)

load_item(j) == Item(Member(j, "name"), Member(j, "price"), Member(j, "quantity"))

load_order(j) ==
    LET its == Member(j, "items")
    IN  Order(Member(j, "order_id"), Member(j, "customer"),
              [i \in 1..Len(its) |-> load_item(its[i])])

\* json.dump(orders, f, indent=4, ensure_ascii=False): the text written
json_dump(value) ==
    [kind |-> value.kind,
     data |-> [i \in 1..Len(value.data) |-> dump_order(value.data[i])]]

\* json.load(f) of a text that parses
json_load(content) ==
    [kind |-> content.kind,
     data |-> [i \in 1..Len(content.data) |-> load_order(content.data[i])]]

OtherContent(k) == [kind |-> k, data |-> <<>>]

\* what a store can hold when the program starts
StoreContents(lists) ==
    {OtherContent(k) : k \in {"missing", "malformed", "undecodable", "object"}}
        \cup {json_dump(ListValue(s)) : s \in lists}

\* load_data(filename): [] when the file is missing or json.load raises
\* JSONDecodeError; any other error of the read propagates
load_data(filename) ==
    LET content == files[filename]
    IN  CASE content.kind \in {"missing", "malformed"} ->
               [raised |-> "", value |-> ListValue(<<>>)]
          [] content.kind = "undecodable" ->
               [raised |-> "UnicodeDecodeError", value |-> ListValue(<<>>)]
          [] OTHER ->
               [raised |-> "", value |-> json_load(content)]

\* a save that names the fulfilled store whatever store it is asked to write
save_orders_wrong_file(filename, value) ==
    [files EXCEPT ![OUTPUT_FILE] = json_dump(value)]

\* a save that writes nothing
save_orders_skipped(filename, value) == files

\* save_orders(filename, orders) once open(filename, "w") has succeeded
save_orders(filename, value) ==
    [files EXCEPT ![filename] = json_dump(value)]

\* the orders a store holds: those of its JSON array, none when it holds no
\* JSON array
StoreView(content) ==
    IF content.kind = "list" THEN json_load(content).data ELSE <<>>

--------------------------------------------------------------------------
(* The history of a session, kept for the properties: the pending list as
   loaded, the orders the fulfilled store held at the start, the orders
   add_order appended, the orders selected in the fulfilments that returned,
   and the pending list and fulfilled store as they were when process_order
   was last called (<<>> outside a call). *)

NoHistory ==
    [loaded |-> <<>>, had |-> <<>>, added |-> <<>>, served |-> <<>>,
     atCall |-> <<>>]

Observe ==
    history' =
        CASE pc = "start" /\ pc' = "menu" ->
               [history EXCEPT !.loaded = orders'.data]
          [] pc = "add_item" /\ pc' = "add_ret" ->
               [history EXCEPT
                   !.added = Append(@, Order(order_id, customer, order_items))]
          [] pc = "menu" /\ pc' = "proc_entry" ->
               [history EXCEPT
                   !.atCall = <<[pending |-> orders.data,
                                 fulfilled |-> StoreView(files[OUTPUT_FILE])]>>]
          [] pc = "proc_move" /\ pc' = "proc_ret" ->
               [history EXCEPT
                   !.served = Append(@, history.atCall[1].pending[DigitsVal(choice)])]
          [] pc \in {"add_ret", "proc_ret"} /\ pc' = "menu" ->
               [history EXCEPT !.atCall = <<>>]
          [] OTHER -> history

--------------------------------------------------------------------------
(* Order arithmetic *)

\* the loop with = for +=: the total is the last subtotal
RECURSIVE TotalFromOverwrites(_, _, _)
TotalFromOverwrites(items, i, total) ==
    IF i > Len(items) THEN total
    ELSE TotalFromOverwrites(items, i + 1, items[i].price * items[i].quantity)

\* the loop of calculate_order_total from item i on, total being the sum so far
RECURSIVE TotalFrom(_, _, _)
TotalFrom(items, i, total) ==
    IF i > Len(items) THEN total
    ELSE TotalFrom(items, i + 1, total + items[i].price * items[i].quantity)

calculate_order_total(o) == TotalFrom(o.items, 1, 0)

--------------------------------------------------------------------------
(* Messages *)

Msg(kind, id) == [kind |-> kind, id |-> id]
NoMsg == Msg("", <<>>)

Printed(kind, totals) == [kind |-> kind, totals |-> totals]
Nothing == Printed("", <<>>)

--------------------------------------------------------------------------
(* User input *)

MenuInputs == {<<>>, <<"4">>, <<"1">>, <<" ", "2">>, <<"3">>, <<"9">>}
IdInputs == {<<"a", "1">>, <<" ", "A", "1">>}
CustomerInputs == {<<"A", "l", " ">>}
ItemNameInputs == {<<>>, <<" ">>, Tea}
PriceInputs == {<<" ", "5">>, <<"-", "1">>, <<"x">>, <<>>, <<"sup2">>}
QuantityInputs == {<<"2">>, <<"0">>, <<"-", "1">>, <<"x">>, <<"sup2">>}
ChoiceInputs ==
    {<<>>, <<" ">>, <<"1">>, <<" ", "2">>, <<"0">>, <<"9">>, <<"x">>,
     <<"-", "1">>, <<"sup2">>}

--------------------------------------------------------------------------
(* The program *)

Init ==
    /\ \E p \in StoreContents(PendingLists), f \in StoreContents(FulfilledLists) :
         files = [n \in {INPUT_FILE, OUTPUT_FILE} |->
                     IF n = INPUT_FILE THEN p ELSE f]
    /\ pc = "start"
    /\ orders = ListValue(<<>>)
    /\ order_id = <<>>
    /\ customer = <<>>
    /\ order_items = <<>>
    /\ item_name = <<>>
    /\ price = 0
    /\ choice = <<>>
    /\ idx = 0
    /\ order = <<>>
    /\ result = NoMsg
    /\ retOrder = <<>>
    /\ stdout = Nothing
    /\ error = ""
    /\ history = [NoHistory EXCEPT !.had = StoreView(files[OUTPUT_FILE])]

addLocals == <<order_id, customer, order_items, item_name, price>>
procLocals == <<choice, idx, order, result, retOrder>>

\* back at the top of the menu loop: the locals of the call that returned are
\* gone, result and order are dead until the next call assigns them, and the
\* menu is printed (lines 190-195)
BackToMenu ==
    /\ pc' = "menu"
    /\ order_id' = <<>>
    /\ customer' = <<>>
    /\ order_items' = <<>>
    /\ item_name' = <<>>
    /\ price' = 0
    /\ choice' = <<>>
    /\ idx' = 0
    /\ order' = <<>>
    /\ result' = NoMsg
    /\ retOrder' = <<>>
    /\ stdout' = Printed("menu", <<>>)

\* an exception nobody catches ends the program
Raise(e) == pc' = "crashed" /\ error' = e

\* main, line 188: orders = load_data(INPUT_FILE)
Start ==
    /\ pc = "start"
    /\ LET r == load_data(INPUT_FILE)
       IN  IF r.raised # ""
           THEN Raise(r.raised) /\ UNCHANGED orders
           ELSE pc' = "menu" /\ orders' = r.value /\ UNCHANGED error
    /\ stdout' = IF load_data(INPUT_FILE).raised # "" THEN Nothing
                 ELSE Printed("menu", <<>>)
    /\ UNCHANGED <<files, addLocals, procLocals>>
    /\ Observe

\* the menu loop with a report that empties the list it prints
MenuReportDrains ==
    /\ pc = "menu"
    /\ \E line \in MenuInputs :
         LET option == strip(line)
         IN  CASE option = <<>> \/ option = <<"4">> ->
                    pc' = "exit" /\ stdout' = Printed("bye", <<>>)
                        /\ UNCHANGED orders
               [] option = <<"1">> ->
                    pc' = "add_id" /\ stdout' = Nothing /\ UNCHANGED orders
               [] option = <<"2">> ->
                    /\ pc' = "menu"
                    /\ stdout' = Printed("report_menu",
                           [i \in 1..Len(orders.data) |->
                               calculate_order_total(orders.data[i])])
                    /\ orders' = [orders EXCEPT !.data = <<>>]
               [] option = <<"3">> ->
                    pc' = "proc_entry" /\ stdout' = Nothing /\ UNCHANGED orders
               [] OTHER ->
                    pc' = "menu" /\ stdout' = Printed("bad_option_menu", <<>>)
                        /\ UNCHANGED orders
    /\ UNCHANGED <<files, addLocals, procLocals, error>>
    /\ Observe

\* main, lines 196-213: one pass of the menu loop up to the call it dispatches
Menu ==
    /\ pc = "menu"
    /\ \E line \in MenuInputs :
         LET option == strip(line)
         IN  CASE option = <<>> \/ option = <<"4">> ->
                    pc' = "exit" /\ stdout' = Printed("bye", <<>>)
               [] option = <<"1">> ->
                    pc' = "add_id" /\ stdout' = Nothing
               [] option = <<"2">> ->
                    \* print_order_report(orders)
                    /\ pc' = "menu"
                    /\ stdout' = Printed("report_menu",
                           [i \in 1..Len(orders.data) |->
                               calculate_order_total(orders.data[i])])
               [] option = <<"3">> ->
                    pc' = "proc_entry" /\ stdout' = Nothing
               [] OTHER ->
                    pc' = "menu" /\ stdout' = Printed("bad_option_menu", <<>>)
    /\ UNCHANGED <<files, orders, addLocals, procLocals, error>>
    /\ Observe

--------------------------------------------------------------------------
(* Order entry: add_order *)

\* line 105: any(order["order_id"] == order_id for order in orders)
IsDuplicate(id, value) ==
    \E i \in 1..Len(value.data) : value.data[i].order_id = id

\* lines 103-106: the order id prompt and the duplicate check
AddOrderId ==
    /\ pc = "add_id"
    /\ \E line \in IdInputs :
         LET id == upper(strip(line))
         IN  /\ order_id' = id
             /\ IF IsDuplicate(id, orders)
                THEN /\ result' = Msg("duplicate", id)
                     /\ pc' = "add_ret"
                ELSE /\ Len(orders.data) < MaxOrders
                     /\ result' = result
                     /\ pc' = "add_customer"
    /\ UNCHANGED <<files, orders, customer, order_items, item_name, price,
                   choice, idx, order, retOrder, stdout, error>>
    /\ Observe

\* lines 107-108
AddCustomer ==
    /\ pc = "add_customer"
    /\ \E line \in CustomerInputs : customer' = strip(line)
    /\ order_items' = <<>>
    /\ pc' = "add_item"
    /\ UNCHANGED <<files, orders, order_id, item_name, price, procLocals,
                   stdout, error>>
    /\ Observe

\* orders.insert(0, {...}) for orders.append({...})
AppendOrderReplaces(value, o) == ListValue(<<o>>)

AppendOrderFront(value, o) == ListValue(<<o>> \o value.data)

\* lines 140-145: orders.append({...}); a dict has no append
AppendOrder(value, o) == ListValue(Append(value.data, o))

\* lines 110-116 and, when item entry ends, 140-145
AddItemName ==
    /\ pc = "add_item"
    /\ \E line \in ItemNameInputs :
         LET name == strip(line)
         IN  /\ item_name' = name
             /\ IF name = <<>>
                THEN IF order_items = <<>>
                     THEN /\ stdout' = Printed("need_item", <<>>)
                          /\ pc' = "add_item"
                          /\ UNCHANGED <<orders, result, error>>
                     ELSE IF orders.kind # "list"
                          THEN /\ Raise("AttributeError")
                               /\ UNCHANGED <<orders, result, stdout>>
                          ELSE /\ orders' = AppendOrder(orders,
                                       Order(order_id, customer, order_items))
                               /\ result' = Msg("added", order_id)
                               /\ pc' = "add_ret"
                               /\ UNCHANGED <<stdout, error>>
                ELSE /\ Len(order_items) < MaxItems
                     /\ pc' = "add_price"
                     /\ UNCHANGED <<orders, result, stdout, error>>
    /\ UNCHANGED <<files, order_id, customer, order_items, price, choice, idx,
                   order, retOrder>>
    /\ Observe

\* line 122: a price is accepted unless it is negative
PriceOk(v) == ~(v < 0)

\* lines 118-127
AddPrice ==
    /\ pc = "add_price"
    /\ \E line \in PriceInputs :
         LET r == int(strip(line))
         IN  IF r.raised
             THEN /\ stdout' = Printed("err_int", <<>>)
                  /\ UNCHANGED <<price, pc>>
             ELSE IF PriceOk(r.value)
                  THEN /\ price' = r.value
                       /\ pc' = "add_qty"
                       /\ UNCHANGED stdout
                  ELSE /\ price' = r.value
                       /\ stdout' = Printed("err_negative", <<>>)
                       /\ UNCHANGED pc
    /\ UNCHANGED <<files, orders, order_id, customer, order_items, item_name,
                   procLocals, error>>
    /\ Observe

\* the quantity check with < for <=
QuantityOkOffByOne(v) == ~(v < 0)

\* line 133: a quantity is accepted unless it is <= 0
QuantityOk(v) == ~(v <= 0)

\* lines 129-139
AddQuantity ==
    /\ pc = "add_qty"
    /\ \E line \in QuantityInputs :
         LET r == int(strip(line))
         IN  IF r.raised
             THEN /\ stdout' = Printed("err_int", <<>>)
                  /\ UNCHANGED <<order_items, pc>>
             ELSE IF QuantityOk(r.value)
                  THEN /\ order_items' =
                            Append(order_items, Item(item_name, price, r.value))
                       /\ pc' = "add_item"
                       /\ UNCHANGED stdout
                  ELSE /\ stdout' = Printed("err_quantity", <<>>)
                       /\ UNCHANGED <<order_items, pc>>
    /\ UNCHANGED <<files, orders, order_id, customer, item_name, price,
                   procLocals, error>>
    /\ Observe

\* main, lines 200-202: print(result); save_orders(INPUT_FILE, orders).
\* open(filename, "w") raises OSError on an unwritable target.
MainAfterAdd ==
    /\ pc = "add_ret"
    /\ \E writable \in BOOLEAN :
         IF writable
         THEN /\ files' = save_orders(INPUT_FILE, orders)
              /\ BackToMenu
              /\ UNCHANGED error
         ELSE /\ Raise("OSError")
              /\ stdout' = Printed(result.kind, <<>>)
              /\ UNCHANGED <<files, addLocals, procLocals>>
    /\ UNCHANGED orders
    /\ Observe

--------------------------------------------------------------------------
(* Fulfillment: process_order *)

\* process_order without its first check
IsEmptyNever(value) == FALSE

\* line 157: "not orders" holds of an empty list and of an empty dict
IsEmpty(value) == Len(value.data) = 0

\* lines 157-162: the call, up to the first prompt
ProcessOrderEntry ==
    /\ pc = "proc_entry"
    /\ IF IsEmpty(orders)
       THEN /\ result' = Msg("no_pending", <<>>)
            /\ retOrder' = <<>>
            /\ pc' = "proc_ret"
            /\ UNCHANGED stdout
       ELSE /\ stdout' = Printed("pending_list", <<>>)
            /\ pc' = "proc_choice"
            /\ UNCHANGED <<result, retOrder>>
    /\ UNCHANGED <<files, orders, addLocals, choice, idx, order, error>>
    /\ Observe

\* line 171: the selections the prompt accepts
InRange(i, value) == ~(i < 1 \/ i > Len(value.data))

\* orders.pop(idx): the index not shifted to 0-based (past the end it takes
\* the last element)
PopNextIndex(value, i) ==
    LET k == IF i + 1 > Len(value.data) THEN Len(value.data) ELSE i + 1
    IN  ListValue(SubSeq(value.data, 1, k - 1)
                      \o SubSeq(value.data, k + 1, Len(value.data)))

\* line 174: orders.pop(idx - 1) leaves the list without its idx-th element
Pop(value, i) ==
    ListValue(SubSeq(value.data, 1, i - 1)
                  \o SubSeq(value.data, i + 1, Len(value.data)))

\* the selection step with the pending store rewritten as soon as the order is
\* popped, before the fulfilled store is written
ProcessChoiceSavesFirst ==
    /\ pc = "proc_choice"
    /\ \E line \in ChoiceInputs :
         LET c == strip(line)
             r == int(c)
         IN  /\ choice' = c
             /\ CASE c = <<>> ->
                    /\ result' = Msg("cancelled", <<>>)
                    /\ retOrder' = <<>>
                    /\ pc' = "proc_ret"
                    /\ UNCHANGED <<files, orders, idx, order, stdout, error>>
               [] c # <<>> /\ ~isdigit(c) ->
                    /\ stdout' = Printed("err_number", <<>>)
                    /\ UNCHANGED <<files, orders, idx, order, result, retOrder, pc, error>>
               [] isdigit(c) /\ r.raised ->
                    \* int(choice) is outside any try
                    /\ Raise("ValueError")
                    /\ UNCHANGED <<files, orders, idx, order, result, retOrder, stdout>>
               [] isdigit(c) /\ ~r.raised /\ ~InRange(r.value, orders) ->
                    /\ idx' = r.value
                    /\ stdout' = Printed("err_number", <<>>)
                    /\ UNCHANGED <<files, orders, order, result, retOrder, pc, error>>
               [] isdigit(c) /\ ~r.raised /\ InRange(r.value, orders) ->
                    /\ Len(json_load(files[OUTPUT_FILE]).data) < MaxFulfilled
                    /\ idx' = r.value
                    /\ order' = <<orders.data[r.value]>>
                    /\ orders' = Pop(orders, r.value)
                    /\ files' = save_orders(INPUT_FILE, Pop(orders, r.value))
                    /\ pc' = "proc_move"
                    /\ UNCHANGED <<result, retOrder, stdout, error>>
    /\ UNCHANGED addLocals
    /\ Observe

\* lines 164-174: one answer to the selection prompt
ProcessChoice ==
    /\ pc = "proc_choice"
    /\ \E line \in ChoiceInputs :
         LET c == strip(line)
             r == int(c)
         IN  /\ choice' = c
             /\ CASE c = <<>> ->
                    /\ result' = Msg("cancelled", <<>>)
                    /\ retOrder' = <<>>
                    /\ pc' = "proc_ret"
                    /\ UNCHANGED <<orders, idx, order, stdout, error>>
               [] c # <<>> /\ ~isdigit(c) ->
                    /\ stdout' = Printed("err_number", <<>>)
                    /\ UNCHANGED <<orders, idx, order, result, retOrder, pc, error>>
               [] isdigit(c) /\ r.raised ->
                    \* int(choice) is outside any try
                    /\ Raise("ValueError")
                    /\ UNCHANGED <<orders, idx, order, result, retOrder, stdout>>
               [] isdigit(c) /\ ~r.raised /\ ~InRange(r.value, orders) ->
                    /\ idx' = r.value
                    /\ stdout' = Printed("err_number", <<>>)
                    /\ UNCHANGED <<orders, order, result, retOrder, pc, error>>
               [] isdigit(c) /\ ~r.raised /\ InRange(r.value, orders) ->
                    /\ Len(json_load(files[OUTPUT_FILE]).data) < MaxFulfilled
                    /\ idx' = r.value
                    /\ order' = <<orders.data[r.value]>>
                    /\ orders' = Pop(orders, r.value)
                    /\ pc' = "proc_move"
                    /\ UNCHANGED <<result, retOrder, stdout, error>>
    /\ UNCHANGED <<files, addLocals>>
    /\ Observe

\* lines 176-180: load the fulfilled store, append the order, save, return
ProcessMove ==
    /\ pc = "proc_move"
    /\ LET r == load_data(OUTPUT_FILE)
       IN  IF r.raised # ""
           THEN /\ Raise(r.raised)
                /\ UNCHANGED <<files, result, retOrder>>
           ELSE IF r.value.kind # "list"
           THEN /\ Raise("AttributeError")
                /\ UNCHANGED <<files, result, retOrder>>
           ELSE \E writable \in BOOLEAN :
                  IF writable
                  THEN /\ files' = save_orders(OUTPUT_FILE,
                                       AppendOrder(r.value, order[1]))
                       /\ result' = Msg("fulfilled", order[1].order_id)
                       /\ retOrder' = order
                       /\ pc' = "proc_ret"
                       /\ UNCHANGED error
                  ELSE /\ Raise("OSError")
                       /\ UNCHANGED <<files, result, retOrder>>
    /\ UNCHANGED <<orders, addLocals, choice, idx, order, stdout>>
    /\ Observe

\* main, lines 207-211: print(result); the single-order report when an order
\* came back; save_orders(INPUT_FILE, orders)
MainAfterProcess ==
    /\ pc = "proc_ret"
    /\ \E writable \in BOOLEAN :
         IF writable
         THEN /\ files' = save_orders(INPUT_FILE, orders)
              /\ BackToMenu
              /\ UNCHANGED error
         ELSE /\ Raise("OSError")
              /\ stdout' = IF retOrder # <<>>
                           THEN Printed("fulfilled_report",
                                        <<calculate_order_total(retOrder[1])>>)
                           ELSE Printed(result.kind, <<>>)
              /\ UNCHANGED <<files, addLocals, procLocals>>
    /\ UNCHANGED orders
    /\ Observe

--------------------------------------------------------------------------

Next ==
    \/ Start
    \/ Menu
    \/ AddOrderId
    \/ AddCustomer
    \/ AddItemName
    \/ AddPrice
    \/ AddQuantity
    \/ MainAfterAdd
    \/ ProcessOrderEntry
    \/ ProcessChoice
    \/ ProcessMove
    \/ MainAfterProcess

Spec == Init /\ [][Next]_vars

--------------------------------------------------------------------------
(* calculate_order_total on its own: the total of any order, as the report of
   one order prints it (lines 89-90) *)

RECURSIVE SeqsUpTo(_, _)
SeqsUpTo(S, n) ==
    IF n = 0 THEN {<<>>}
    ELSE LET shorter == SeqsUpTo(S, n - 1)
         IN  shorter \cup {Append(q, e) : q \in shorter, e \in S}

TotalItems == {Item(Tea, p, q) : p \in {0, 5, 30}, q \in {1, 2, 3}}

TotalInit ==
    /\ \E its \in SeqsUpTo(TotalItems, MaxItems) :
         order = <<Order(<<"A", "1">>, <<"A", "l">>, its)>>
    /\ pc = "total_call"
    /\ files = [n \in {INPUT_FILE, OUTPUT_FILE} |-> OtherContent("missing")]
    /\ orders = ListValue(<<>>)
    /\ order_id = <<>>
    /\ customer = <<>>
    /\ order_items = <<>>
    /\ item_name = <<>>
    /\ price = 0
    /\ choice = <<>>
    /\ idx = 0
    /\ result = NoMsg
    /\ retOrder = <<>>
    /\ stdout = Nothing
    /\ error = ""
    /\ history = NoHistory

TotalCall ==
    /\ pc = "total_call"
    /\ stdout' = Printed("total", <<calculate_order_total(order[1])>>)
    /\ pc' = "total_done"
    /\ UNCHANGED <<files, orders, addLocals, procLocals, error>>
    /\ UNCHANGED history

TotalNext == TotalCall

TotalSpec == TotalInit /\ [][TotalNext]_vars

--------------------------------------------------------------------------
(* The storage adapter on its own: save_orders of any list of orders, then
   load_data of the same store *)

NoItems == Order(<<"D", "4">>, <<>>, <<>>)
NoId == Order(<<>>, <<"A", "l">>, <<Item(Tea, 0, 3)>>)

RoundTripOrders == {HandWritten, Stored, Served, NoItems, NoId}

RoundTripInit ==
    /\ \E l \in SeqsUpTo(RoundTripOrders, MaxOrders) : orders = ListValue(l)
    /\ pc = "rt_start"
    /\ files = [n \in {INPUT_FILE, OUTPUT_FILE} |-> OtherContent("missing")]
    /\ order_id = <<>>
    /\ customer = <<>>
    /\ order_items = <<>>
    /\ item_name = <<>>
    /\ price = 0
    /\ choice = <<>>
    /\ idx = 0
    /\ order = <<>>
    /\ result = NoMsg
    /\ retOrder = <<>>
    /\ stdout = Nothing
    /\ error = ""
    /\ history = NoHistory

\* save_orders(INPUT_FILE, orders)
RoundTripSave ==
    /\ pc = "rt_start"
    /\ \E writable \in BOOLEAN :
         IF writable
         THEN /\ files' = save_orders(INPUT_FILE, orders)
              /\ pc' = "rt_saved"
              /\ UNCHANGED error
         ELSE /\ Raise("OSError")
              /\ UNCHANGED files
    /\ UNCHANGED <<orders, addLocals, procLocals, stdout>>
    /\ UNCHANGED history

\* orders = load_data(INPUT_FILE)
RoundTripLoad ==
    /\ pc = "rt_saved"
    /\ LET r == load_data(INPUT_FILE)
       IN  IF r.raised # ""
           THEN Raise(r.raised) /\ UNCHANGED orders
           ELSE pc' = "rt_loaded" /\ orders' = r.value /\ UNCHANGED error
    /\ UNCHANGED <<files, addLocals, procLocals, stdout>>
    /\ UNCHANGED history

RoundTripNext ==
    \/ RoundTripSave
    \/ RoundTripLoad

RoundTripSpec == RoundTripInit /\ [][RoundTripNext]_vars

--------------------------------------------------------------------------
(* Properties *)

\* s without its k-th element
RemoveAt(s, k) == [i \in 1..(Len(s) - 1) |-> IF i < k THEN s[i] ELSE s[i + 1]]

\* s writes a natural number in decimal digits
IsDecimal(s) == s # <<>> /\ \A i \in 1..Len(s) : s[i] \in AsciiDigits

\* C1: no two orders of the pending list have ids that are equal when compared
\* case-insensitively.
C1_UniqueIds ==
    \A i, j \in 1..Len(orders.data) :
        i # j => upper(orders.data[i].order_id) # upper(orders.data[j].order_id)

\* C2: when the id given to add_order matches, case-insensitively, the id of an
\* order of the pending list, add_order returns the duplicate-id message at
\* once and the pending list is unchanged.
C2_DuplicateRejected ==
    [][(/\ pc = "add_id"
        /\ \E i \in 1..Len(orders.data) :
              upper(orders.data[i].order_id) = order_id')
       => /\ pc' = "add_ret"
          /\ result'.kind = "duplicate"
          /\ orders' = orders]_vars

\* C3: a valid selection k removes exactly the k-th order from the pending
\* list, the rest keeping their order; the fulfilled store then holds what it
\* held followed by that order; that order is returned; and the pending store
\* is rewritten as the list without it.
C3_FulfilMovesOrder ==
    [][/\ (/\ pc = "proc_choice"
           /\ IsDecimal(choice')
           /\ DigitsVal(choice') \in 1..Len(orders.data))
          => pc' = "proc_move"
       /\ (pc = "proc_choice" /\ pc' = "proc_move")
          => /\ IsDecimal(choice')
             /\ idx' = DigitsVal(choice')
             /\ idx' \in 1..Len(orders.data)
             /\ order' = <<orders.data[idx']>>
             /\ orders' = ListValue(RemoveAt(orders.data, idx'))
             /\ files' = files
       /\ (pc = "proc_move" /\ pc' = "proc_ret")
          => /\ StoreView(files'[OUTPUT_FILE])
                   = Append(StoreView(files[OUTPUT_FILE]), order[1])
             /\ retOrder' = order
             /\ orders' = orders
             /\ files'[INPUT_FILE] = files[INPUT_FILE]
       /\ (pc = "proc_ret" /\ retOrder # <<>> /\ pc' = "menu")
          => /\ StoreView(files'[INPUT_FILE]) = orders.data
             /\ orders' = orders
             /\ files'[OUTPUT_FILE] = files[OUTPUT_FILE]]_vars

\* the first of three pending orders has been fulfilled into a store that
\* already held an order
C3_Witness ==
    /\ pc = "proc_ret"
    /\ retOrder # <<>>
    /\ idx = 1
    /\ Len(orders.data) = 2
    /\ Len(StoreView(files[OUTPUT_FILE])) = 2

\* C4: every order add_order appends has at least one item, and every item
\* collected for it has a name, a price >= 0 and a quantity >= 1.
C4_AppendedOrderValid ==
    /\ \A i \in 1..Len(order_items) :
          /\ order_items[i].name # <<>>
          /\ order_items[i].price >= 0
          /\ order_items[i].quantity >= 1
    /\ (pc = "add_ret" /\ result.kind = "added")
       => LET o == orders.data[Len(orders.data)]
          IN  /\ o.items = order_items
              /\ Len(o.items) >= 1

\* add_order has returned after appending an order of two items
C4_Witness ==
    /\ pc = "add_ret"
    /\ result.kind = "added"
    /\ Len(orders.data[Len(orders.data)].items) = 2

\* C5: process_order called with an empty pending list returns the
\* no-pending-orders message and no order, and leaves the pending list and both
\* stores as they are; the save that follows in main leaves the orders of the
\* pending store and the fulfilled store as they are.
C5_EmptyFulfilment ==
    [][/\ (pc = "proc_entry" /\ Len(orders.data) = 0)
          => /\ pc' = "proc_ret"
             /\ result' = Msg("no_pending", <<>>)
             /\ retOrder' = <<>>
             /\ orders' = orders
             /\ files' = files
       /\ (pc = "proc_ret" /\ result.kind = "no_pending")
          => /\ orders' = orders
             /\ StoreView(files'[INPUT_FILE]) = StoreView(files[INPUT_FILE])
             /\ files'[OUTPUT_FILE] = files[OUTPUT_FILE]]_vars

\* process_order has returned from an empty pending list while the fulfilled
\* store holds an order
C5_Witness ==
    /\ pc = "proc_ret"
    /\ result.kind = "no_pending"
    /\ orders = ListValue(<<>>)
    /\ Len(StoreView(files[OUTPUT_FILE])) >= 1

\* C6: at the selection prompt a blank input cancels with no order returned and
\* nothing changed; an input that is not a number, or a number outside
\* 1..Len(orders), changes nothing and leads to the same prompt.
C6_SelectionPrompt ==
    [][pc = "proc_choice"
       => /\ choice' = <<>>
             => /\ pc' = "proc_ret"
                /\ retOrder' = <<>>
                /\ orders' = orders
                /\ files' = files
          /\ (/\ choice' # <<>>
              /\ \/ ~IsDecimal(choice')
                 \/ DigitsVal(choice') \notin 1..Len(orders.data))
             => /\ pc' = "proc_choice"
                /\ orders' = orders
                /\ files' = files]_vars

\* C7: the fulfilled store changes only in the move of a fulfilment with a
\* valid selection, and then holds what it held followed by the order selected.
C7_FulfilledAppendOnly ==
    [][files'[OUTPUT_FILE] # files[OUTPUT_FILE]
       => /\ pc = "proc_move"
          /\ pc' = "proc_ret"
          /\ idx \in 1..(Len(orders.data) + 1)
          /\ StoreView(files'[OUTPUT_FILE])
                = Append(StoreView(files[OUTPUT_FILE]), order[1])]_vars

\* back at the menu after a fulfilment, the fulfilled store holds the order it
\* held at the start and one more
C7_Witness ==
    /\ pc = "menu"
    /\ Len(StoreView(files[OUTPUT_FILE])) = 2
    /\ StoreView(files[OUTPUT_FILE])[1] = Served

\* C8: whenever the program is at the menu prompt, loading the pending store
\* yields the in-memory pending list.
C8_PendingPersisted ==
    pc = "menu" => load_data(INPUT_FILE) = [raised |-> "", value |-> orders]

\* at the menu after an order was added and another fulfilled
C8_Witness ==
    /\ pc = "menu"
    /\ \E i \in 1..Len(orders.data) : orders.data[i].order_id = <<"A", "1">>
    /\ Len(StoreView(files[OUTPUT_FILE])) = 2
    /\ Len(StoreView(files[INPUT_FILE])) = 2

\* C9: no answer to the price prompt, the quantity prompt or the selection
\* prompt ends the program with an error.
C9_NumericInputRecoverable ==
    [][(pc \in {"add_price", "add_qty", "proc_choice"}) => (error' = "")]_vars

\* C10: load_data never raises and always returns a list, the empty one when
\* the store is missing or its content does not parse: so it is for the load
\* of the pending store when the program starts, and no load of the fulfilled
\* store ends the program.
C10_LoadNeverRaises ==
    [][/\ (pc = "start")
          => (/\ pc' = "menu"
              /\ orders'.kind = "list"
              /\ files[INPUT_FILE].kind \in {"missing", "malformed", "undecodable"}
                 => orders'.data = <<>>)
       /\ (pc = "proc_move") => (error' # "UnicodeDecodeError")]_vars

\* C11: a report changes nothing: the report of the pending list leaves the
\* list and both stores as they are, and the report of a fulfilled order in
\* main leaves the list and the fulfilled store as they are, the save after it
\* writing the list as it was.
C11_ReportPure ==
    [][/\ (pc = "menu" /\ stdout'.kind = "report_menu")
          => /\ pc' = "menu"
             /\ orders' = orders
             /\ files' = files
       /\ (pc = "proc_ret" /\ retOrder # <<>>)
          => /\ orders' = orders
             /\ files'[OUTPUT_FILE] = files[OUTPUT_FILE]
             /\ pc' = "menu" => StoreView(files'[INPUT_FILE]) = orders.data]_vars

\* a report of two pending orders has been printed
C11_Witness ==
    /\ pc = "menu"
    /\ stdout.kind = "report_menu"
    /\ Len(stdout.totals) = 2
    /\ Len(orders.data) = 2

\* the sum of price times quantity over the items
RECURSIVE SumOfSubtotals(_)
SumOfSubtotals(items) ==
    IF items = <<>> THEN 0
    ELSE Head(items).price * Head(items).quantity + SumOfSubtotals(Tail(items))

\* C12: the total of an order is the sum over its items of price times
\* quantity, 0 when it has no item, and computing it leaves the order as it is.
C12_TotalIsSum ==
    [][pc = "total_call"
       => /\ stdout'.totals = <<SumOfSubtotals(order[1].items)>>
          /\ order[1].items = <<>> => stdout'.totals = <<0>>
          /\ order' = order]_vars

\* the total 65 of an order of two different items has been computed
C12_Witness ==
    /\ pc = "total_done"
    /\ order[1].items = <<Item(Tea, 5, 1), Item(Tea, 30, 2)>>
    /\ stdout.totals = <<65>>

\* C13: loading a store after a list of orders was saved to it yields that
\* list: the same orders in the same order, their items in the same order.
C13_RoundTrip ==
    [][pc = "rt_saved"
       => /\ pc' = "rt_loaded"
          /\ orders' = orders
          /\ \A i \in 1..Len(orders.data) :
                orders'.data[i].items = orders.data[i].items]_vars

\* two orders, one of them with two different items, have been saved and
\* loaded
C13_Witness ==
    /\ pc = "rt_loaded"
    /\ orders = ListValue(<<Served, HandWritten>>)
    /\ files[INPUT_FILE].kind = "list"

\* C14: in add_order with an id that is not rejected, a blank item name ends
\* item entry exactly when an item has been accepted, and otherwise leads to
\* the item name prompt again with nothing appended; the id is upper case and
\* trimmed; each accepted item goes to the end of the items; and when
\* add_order returns after item entry, the pending list is the list as it was
\* followed by one order of that id, the customer entered and the accepted
\* items in the order of entry.
C14_OrderEntry ==
    [][/\ (pc = "add_id")
          => /\ \A i \in 1..Len(order_id') :
                   order_id'[i] \notin DOMAIN LowerToUpper
             /\ order_id' # <<>>
                => /\ order_id'[1] \notin Whitespace
                   /\ order_id'[Len(order_id')] \notin Whitespace
             /\ orders' = orders
       /\ (pc \in {"add_customer", "add_price", "add_qty"})
          => orders' = orders
       /\ (pc \in {"add_item", "add_price", "add_qty"})
          => (order_id' = order_id /\ customer' = customer)
       /\ (pc \in {"add_item", "add_price"})
          => order_items' = order_items
       /\ (pc = "add_qty" /\ pc' = "add_item")
          => /\ Len(order_items') = Len(order_items) + 1
             /\ SubSeq(order_items', 1, Len(order_items)) = order_items
             /\ order_items'[Len(order_items')].name = item_name
             /\ order_items'[Len(order_items')].price = price
       /\ (pc = "add_item" /\ item_name' = <<>> /\ order_items = <<>>)
          => (pc' = "add_item" /\ orders' = orders)
       /\ (pc = "add_item" /\ item_name' = <<>> /\ order_items # <<>>)
          => pc' # "add_item"
       /\ (pc = "add_item" /\ item_name' # <<>>)
          => (pc' = "add_price" /\ orders' = orders)
       /\ (pc = "add_item" /\ pc' = "add_ret")
          => /\ item_name' = <<>>
             /\ order_items # <<>>
             /\ orders'.data
                   = Append(orders.data, Order(order_id, customer, order_items))
             /\ result' = Msg("added", order_id)]_vars

\* add_order has returned after appending a third order, of two items
C14_Witness ==
    /\ pc = "add_ret"
    /\ result.kind = "added"
    /\ Len(orders.data) = 3
    /\ orders.data[3] = Order(<<"A", "1">>, <<"A", "l">>, order_items)
    /\ Len(order_items) = 2

\* the store named n holds the order o
InStore(o, n, fs) ==
    \E i \in 1..Len(StoreView(fs[n])) : StoreView(fs[n])[i] = o

OnDisk(o, fs) == InStore(o, INPUT_FILE, fs) \/ InStore(o, OUTPUT_FILE, fs)

\* C15: from the moment an order is popped for fulfilment it is in the pending
\* store or the fulfilled store on disk, before and after every step, also
\* the steps in which a save fails: it is in the pending store until the
\* fulfilled store has been written, and in the fulfilled store from then on.
C15_NoOrderLost ==
    [][/\ (order # <<>>)
          => (OnDisk(order[1], files) /\ OnDisk(order[1], files'))
       /\ (order' # <<>>)
          => OnDisk(order'[1], files')
       /\ (pc' = "proc_move")
          => InStore(order'[1], INPUT_FILE, files')
       /\ (pc = "proc_move")
          => InStore(order[1], INPUT_FILE, files')
       /\ (pc = "proc_ret" /\ retOrder # <<>>)
          => (/\ retOrder = order
              /\ InStore(order[1], OUTPUT_FILE, files)
              /\ InStore(order[1], OUTPUT_FILE, files'))]_vars

\* the program has ended on a failed save of the pending store, after the
\* fulfilled store was written: the order is in both stores
C15_Witness ==
    /\ pc = "crashed"
    /\ error = "OSError"
    /\ retOrder # <<>>
    /\ InStore(order[1], OUTPUT_FILE, files)
    /\ InStore(order[1], INPUT_FILE, files)
    /\ \A i \in 1..Len(orders.data) : orders.data[i] # order[1]


RECURSIVE RemoveFirst(_, _)
RemoveFirst(s, o) ==
    IF s = <<>> THEN <<>>
    ELSE IF Head(s) = o THEN Tail(s)
    ELSE <<Head(s)>> \o RemoveFirst(Tail(s), o)

RECURSIVE Minus(_, _)
Minus(s, gone) ==
    IF gone = <<>> THEN s
    ELSE Minus(RemoveFirst(s, Head(gone)), Tail(gone))

\* C16: orders are conserved across a session.  Starting from a pending
\* store that loads as a list of orders, whenever the program is back
\* at the menu, the fulfilled store holds its initial orders followed by the
\* orders fulfilled so far, in the order they were fulfilled, and the pending
\* list is the loaded orders followed by the added ones, without the
\* fulfilled ones, in insertion order.  When process_order returns, it
\* returns an order if and only if the pending list is one shorter and the
\* fulfilled store one longer than when it was called; when it returns None
\* both are as they were.
C16_Conserved ==
    /\ (pc = "menu" /\ orders.kind = "list") =>
          /\ StoreView(files[OUTPUT_FILE]) = history.had \o history.served
          /\ orders.data = Minus(history.loaded \o history.added, history.served)
    /\ (pc = "proc_ret") =>
          /\ (retOrder # <<>>) <=>
                (/\ Len(orders.data) = Len(history.atCall[1].pending) - 1
                 /\ Len(StoreView(files[OUTPUT_FILE]))
                       = Len(history.atCall[1].fulfilled) + 1)
          /\ (retOrder = <<>>) =>
                (/\ orders.data = history.atCall[1].pending
                 /\ StoreView(files[OUTPUT_FILE]) = history.atCall[1].fulfilled)

\* back at the menu after an add and a fulfilment, with orders loaded at the
\* start still pending and the fulfilled store grown past its initial content
C16_Witness ==
    /\ pc = "menu"
    /\ orders.kind = "list"
    /\ history.added # <<>>
    /\ history.served # <<>>
    /\ history.had # <<>>
    /\ history.loaded # <<>>
    /\ orders.data # <<>>
    /\ Len(StoreView(files[OUTPUT_FILE])) = Len(history.had) + 1

====
